---------------------------- MODULE Spec2Model ----------------------------
(***************************************************************************)
(* GitHub Faces (src/script.js): the client-side load / filter / sort      *)
(* engine, modelled as a state machine.                                    *)
(*                                                                         *)
(* Representation choices                                                  *)
(*   - a JavaScript string is a sequence of one-character strings;         *)
(*   - a JavaScript number is <<n>> for the integer n and <<>> for NaN;     *)
(*   - a JSON value is a record [t, n, s]: undefined, null, a number, a    *)
(*     string, or ("iso") a string that Date.parse accepts, carrying the   *)
(*     instant it denotes;                                                 *)
(*   - an instant is a number of hours since 1970-01-01T00:00Z (the code   *)
(*     counts milliseconds; the local time zone is taken to be UTC);       *)
(*   - an array is an identity (ArrIds) whose content lives in heap, so    *)
(*     that copying and in-place mutation are different things;            *)
(*   - a canonical record is an object: an index into objs.                *)
(*   - of each mobile/desktop pair of elements that the code always        *)
(*     updates together, one is kept.                                      *)
(***************************************************************************)
EXTENDS Integers, Sequences, FiniteSets, TLC

\* ------------------------------------------------------------------------
\* Bounds of the model
\* ------------------------------------------------------------------------

\* longest users.json payload
MaxUsers == 2

\* how many filter categories are away from their reset value when
\* applyFilters is called in SpecFilter
MaxActive == 1

\* ------------------------------------------------------------------------
\* JavaScript numbers
\* ------------------------------------------------------------------------

NaN == <<>>

Num(n) == <<n>>

IsNaN(x) == x = NaN

\* a >= b, a <= b, a > b, a < b: false as soon as one side is NaN
Ge(a, b) == ~IsNaN(a) /\ ~IsNaN(b) /\ a[1] >= b[1]

Le(a, b) == ~IsNaN(a) /\ ~IsNaN(b) /\ a[1] <= b[1]

Gt(a, b) == ~IsNaN(a) /\ ~IsNaN(b) /\ a[1] > b[1]

Lt(a, b) == ~IsNaN(a) /\ ~IsNaN(b) /\ a[1] < b[1]

\* a - b
Sub(a, b) == IF IsNaN(a) \/ IsNaN(b) THEN NaN ELSE Num(a[1] - b[1])

\* ------------------------------------------------------------------------
\* JavaScript strings
\* ------------------------------------------------------------------------

DigitVal ==
  "0" :> 0 @@ "1" :> 1 @@ "2" :> 2 @@ "3" :> 3 @@ "4" :> 4 @@
  "5" :> 5 @@ "6" :> 6 @@ "7" :> 7 @@ "8" :> 8 @@ "9" :> 9

DigitChar == <<"0", "1", "2", "3", "4", "5", "6", "7", "8", "9">>

IsDigit(c) == c \in DOMAIN DigitVal

UpperToLower ==
  "A" :> "a" @@ "B" :> "b" @@ "C" :> "c" @@ "E" :> "e" @@ "G" :> "g" @@
  "J" :> "j" @@ "L" :> "l" @@ "N" :> "n" @@ "O" :> "o" @@ "P" :> "p" @@
  "R" :> "r" @@ "S" :> "s" @@ "T" :> "t" @@ "U" :> "u" @@ "Z" :> "z"

\* String.prototype.toLowerCase
toLowerCase(s) ==
  [i \in 1 .. Len(s) |-> IF s[i] \in DOMAIN UpperToLower THEN UpperToLower[s[i]] ELSE s[i]]

\* String.prototype.includes
includes(s, t) ==
  \E i \in 0 .. (Len(s) - Len(t)) : SubSeq(s, i + 1, i + Len(t)) = t

\* String.prototype.startsWith
startsWith(s, t) == Len(s) >= Len(t) /\ SubSeq(s, 1, Len(t)) = t

RECURSIVE TrimStart(_)
TrimStart(s) == IF s # <<>> /\ Head(s) = " " THEN TrimStart(Tail(s)) ELSE s

RECURSIVE TrimEnd(_)
TrimEnd(s) ==
  IF s # <<>> /\ s[Len(s)] = " " THEN TrimEnd(SubSeq(s, 1, Len(s) - 1)) ELSE s

\* String.prototype.trim
trim(s) == TrimEnd(TrimStart(s))

\* String.prototype.split(sep) for a one-character separator
RECURSIVE split(_, _)
split(s, sep) ==
  IF \A i \in 1 .. Len(s) : s[i] # sep
  THEN <<s>>
  ELSE LET k == CHOOSE i \in 1 .. Len(s) : s[i] = sep /\ \A j \in 1 .. (i - 1) : s[j] # sep
       IN  <<SubSeq(s, 1, k - 1)>> \o split(SubSeq(s, k + 1, Len(s)), sep)

\* the longest prefix of s made of decimal digits
RECURSIVE DigitPrefix(_)
DigitPrefix(s) ==
  IF s # <<>> /\ IsDigit(Head(s)) THEN <<Head(s)>> \o DigitPrefix(Tail(s)) ELSE <<>>

RECURSIVE DigitsValue(_, _)
DigitsValue(acc, ds) ==
  IF ds = <<>> THEN acc ELSE DigitsValue(acc * 10 + DigitVal[Head(ds)], Tail(ds))

\* parseInt(string, 10): leading white space, an optional sign, then the
\* longest run of digits; NaN when there is no digit. (parseInt(string)
\* without a radix differs only on a "0x" prefix, which no input here has.)
parseIntStr(s) ==
  LET t    == TrimStart(s)
      neg  == t # <<>> /\ Head(t) = "-"
      sgn  == t # <<>> /\ Head(t) \in {"-", "+"}
      body == IF sgn THEN Tail(t) ELSE t
      ds   == DigitPrefix(body)
  IN  IF ds = <<>> THEN NaN
      ELSE Num((IF neg THEN -1 ELSE 1) * DigitsValue(0, ds))

\* the decimal digits of a non-negative integer
RECURSIVE DigitsOf(_)
DigitsOf(n) ==
  IF n < 10 THEN <<DigitChar[n + 1]>> ELSE DigitsOf(n \div 10) \o <<DigitChar[(n % 10) + 1]>>

\* Number.prototype.toString for an integer
NumToString(n) == IF n < 0 THEN <<"-">> \o DigitsOf(-n) ELSE DigitsOf(n)

\* a comma before every group of three digits, counted from the right
RECURSIVE GroupDigits(_)
GroupDigits(ds) ==
  IF Len(ds) <= 3 THEN ds
  ELSE GroupDigits(SubSeq(ds, 1, Len(ds) - 3)) \o <<",">> \o SubSeq(ds, Len(ds) - 2, Len(ds))

\* Number.prototype.toLocaleString (en-US) for an integer
toLocaleString(n) ==
  IF n < 0 THEN <<"-">> \o GroupDigits(DigitsOf(-n)) ELSE GroupDigits(DigitsOf(n))

\* a < b in the order localeCompare gives lower-case ASCII words
CharRank ==
  " " :> 0 @@ "-" :> 1 @@ "/" :> 2 @@
  "0" :> 10 @@ "1" :> 11 @@ "2" :> 12 @@ "3" :> 13 @@ "4" :> 14 @@
  "5" :> 15 @@ "6" :> 16 @@ "7" :> 17 @@ "8" :> 18 @@ "9" :> 19 @@
  "a" :> 30 @@ "b" :> 31 @@ "c" :> 32 @@ "e" :> 34 @@ "g" :> 36 @@
  "j" :> 39 @@ "l" :> 41 @@ "n" :> 43 @@ "o" :> 44 @@ "p" :> 45 @@
  "r" :> 47 @@ "s" :> 48 @@ "t" :> 49 @@ "u" :> 50 @@ "y" :> 54 @@ "z" :> 55

\* String.prototype.localeCompare: negative, zero or positive
RECURSIVE localeCompare(_, _)
localeCompare(a, b) ==
  IF a = <<>> /\ b = <<>> THEN 0
  ELSE IF a = <<>> THEN -1
  ELSE IF b = <<>> THEN 1
  ELSE IF CharRank[Head(a)] < CharRank[Head(b)] THEN -1
  ELSE IF CharRank[Head(a)] > CharRank[Head(b)] THEN 1
  ELSE localeCompare(Tail(a), Tail(b))

\* ------------------------------------------------------------------------
\* JSON values and dates
\* ------------------------------------------------------------------------

JUndef == [t |-> "undef", n |-> 0, s |-> <<>>]

JNull == [t |-> "null", n |-> 0, s |-> <<>>]

JNum(k) == [t |-> "num", n |-> k, s |-> <<>>]

JStr(str) == [t |-> "str", n |-> 0, s |-> str]

\* the ISO-8601 string of the instant k
JIso(k) == [t |-> "iso", n |-> k, s |-> <<>>]

EmptyString == JStr(<<>>)

NA == JStr(<<"N", "/", "A">>)

\* ToBoolean
Truthy(v) ==
  CASE v.t = "str" -> v.s # <<>>
    [] v.t = "iso" -> TRUE
    [] v.t = "num" -> v.n # 0
    [] OTHER -> FALSE

\* a || b
OrElse(a, b) == IF Truthy(a) THEN a ELSE b

\* v == null
IsNullish(v) == v.t \in {"undef", "null"}

\* String(v) of a string or an integer
ToStr(v) ==
  CASE v.t = "str" -> v.s
    [] v.t = "num" -> NumToString(v.n)

\* parseInt(v, 10): v is converted to a string first
parseInt(v) ==
  CASE v.t = "num" -> parseIntStr(NumToString(v.n))
    [] v.t = "str" -> parseIntStr(v.s)
    [] OTHER -> NaN

\* new Date(v): the time value, NaN for an Invalid Date
NewDate(v) ==
  CASE v.t = "iso" -> Num(v.n)
    [] v.t = "num" -> Num(v.n)
    [] OTHER -> NaN

\* the outcome of a call that may throw
Returned(v) == [threw |-> FALSE, value |-> v]

Thrown == [threw |-> TRUE, value |-> JUndef]

\* Date.prototype.toISOString: RangeError on an Invalid Date
toISOString(d) == IF IsNaN(d) THEN Thrown ELSE Returned(JIso(d[1]))

HoursPerDay == 24

\* days from 1970-01-01 to the civil date y-m-d (m in 1..12)
DaysFromCivil(y, m, d) ==
  LET yy  == IF m <= 2 THEN y - 1 ELSE y
      era == yy \div 400
      yoe == yy - era * 400
      mp  == (m + 9) % 12
      doy == (153 * mp + 2) \div 5 + d - 1
      doe == yoe * 365 + yoe \div 4 - yoe \div 100 + doy
  IN  era * 146097 + doe - 719468

\* the civil date of a day number: [y, m (0..11, as getMonth), d]
CivilFromDays(z) ==
  LET zz  == z + 719468
      era == zz \div 146097
      doe == zz - era * 146097
      yoe == (doe - doe \div 1460 + doe \div 36524 - doe \div 146096) \div 365
      doy == doe - (365 * yoe + yoe \div 4 - yoe \div 100)
      mp  == (5 * doy + 2) \div 153
      d   == doy - (153 * mp + 2) \div 5 + 1
      m   == IF mp < 10 THEN mp + 3 ELSE mp - 9
      y   == yoe + era * 400 + (IF m <= 2 THEN 1 ELSE 0)
  IN  [y |-> y, m |-> m - 1, d |-> d]

\* new Date(year, monthIndex, day): midnight of that date; a month index
\* outside 0..11 and a day past the end of the month carry over
MakeDate(y, mo, d) ==
  Num(HoursPerDay * (DaysFromCivil(y + (mo \div 12), (mo % 12) + 1, 1) + d - 1))

\* an instant written as a calendar date and an hour
At(y, m, d, h) == HoursPerDay * DaysFromCivil(y, m, d) + h

\* ------------------------------------------------------------------------
\* Record Normalizer
\* ------------------------------------------------------------------------

getNum(v) == IF v = NA \/ IsNullish(v) THEN Num(0) ELSE parseInt(v)

safeLower(v) == IF Truthy(v) THEN toLowerCase(ToStr(v)) ELSE <<>>

normalizeDate(v) == IF Truthy(v) THEN toISOString(NewDate(v)) ELSE Returned(EmptyString)

\* Array.isArray(user.top_languages) ? user.top_languages : []
topLangs(user) == IF user.top_languages.isArray THEN user.top_languages.items ELSE <<>>

prepareLanguage(l) ==
  [name |-> safeLower(l.name), label |-> l.name, bytes |-> getNum(l.bytes)]

\* The *_display strings, html_url and the raw back-reference are left out:
\* formatDisplay cannot throw and nothing in the filter or sort reads them.
prepareUserFromJson(user) ==
  LET avatar == normalizeDate(user.avatar_updated_at)
      pushed == normalizeDate(user.last_repo_pushed_at)
      commit == normalizeDate(user.last_public_commit_at)
  IN  IF avatar.threw \/ pushed.threw \/ commit.threw
      THEN Thrown
      ELSE Returned(
             [name |-> safeLower(OrElse(user.name, user.login)),
              login |-> safeLower(user.login),
              location |-> safeLower(OrElse(user.location, EmptyString)),
              avatar_updated_at |-> avatar.value,
              last_repo_pushed_at |-> pushed.value,
              last_public_commit_at |-> commit.value,
              followers |-> getNum(user.followers),
              following |-> getNum(user.following),
              repos |-> getNum(user.public_repos),
              gists |-> getNum(user.public_gists),
              forks |-> Num(0),
              sponsors |-> getNum(user.sponsors_count),
              sponsoring |-> getNum(user.sponsoring_count),
              total_stars |-> getNum(user.total_stars),
              top_languages |->
                [i \in 1 .. Len(topLangs(user)) |-> prepareLanguage(topLangs(user)[i])]])

\* users.map(prepareUserFromJson): throws as soon as one call throws
mapPrepare(users) ==
  IF \E i \in 1 .. Len(users) : prepareUserFromJson(users[i]).threw
  THEN Thrown
  ELSE Returned([i \in 1 .. Len(users) |-> prepareUserFromJson(users[i]).value])

\* ------------------------------------------------------------------------
\* Filter parameters
\* ------------------------------------------------------------------------

\* The value of a control is a string. A value that the code splits, trims,
\* lower-cases, parses or searches is a sequence of characters; a value that
\* the code only compares with === or uses as a lookup key (sortBy and the
\* three date-bucket selects) is kept as a TLA+ string.
getActiveFilters(ctl) ==
  [searchTerm             |-> toLowerCase(ctl.searchInput),
   minFollowers           |-> parseIntStr(ctl.followersFilter),
   maxFollowers           |-> parseIntStr(ctl.maxFollowersFilter),
   minRepos               |-> parseIntStr(ctl.minReposFilter),
   maxRepos               |-> parseIntStr(ctl.maxReposFilter),
   minForks               |-> parseIntStr(ctl.minForksFilter),
   maxForks               |-> parseIntStr(ctl.maxForksFilter),
   sponsorsFilter         |-> ctl.sponsorsFilter,
   sponsoringFilter       |-> ctl.sponsoringFilter,
   avatarAgeFilter        |-> ctl.avatarAgeFilter,
   minStars               |-> parseIntStr(ctl.minStarsFilter),
   languageFilter         |-> trim(toLowerCase(ctl.languageFilter)),
   lastRepoActivityFilter |-> ctl.lastRepoActivityFilter,
   lastCommitFilter       |-> ctl.lastCommitFilter]

MaxFollowersCeiling == 999999999

MaxReposCeiling == 999999

MaxForksCeiling == 999999

\* the two ends of an inverted range swapped
validateRangeFilters_SwapsBounds(filters, ctl) ==
  LET fol == Gt(filters.minFollowers, filters.maxFollowers)
      rep == Gt(filters.minRepos, filters.maxRepos)
      frk == Gt(filters.minForks, filters.maxForks)
  IN  [repaired |-> fol \/ rep \/ frk,
       filters |->
         [filters EXCEPT
            !.minFollowers = IF fol THEN filters.maxFollowers ELSE @,
            !.maxFollowers = IF fol THEN filters.minFollowers ELSE @,
            !.minRepos     = IF rep THEN filters.maxRepos ELSE @,
            !.maxRepos     = IF rep THEN filters.minRepos ELSE @,
            !.minForks     = IF frk THEN filters.maxForks ELSE @,
            !.maxForks     = IF frk THEN filters.minForks ELSE @],
       controls |->
         [ctl EXCEPT
            !.maxFollowersFilter = IF fol THEN ctl.followersFilter ELSE @,
            !.followersFilter    = IF fol THEN ctl.maxFollowersFilter ELSE @,
            !.maxReposFilter     = IF rep THEN ctl.minReposFilter ELSE @,
            !.minReposFilter     = IF rep THEN ctl.maxReposFilter ELSE @,
            !.maxForksFilter     = IF frk THEN ctl.minForksFilter ELSE @,
            !.minForksFilter     = IF frk THEN ctl.maxForksFilter ELSE @]]

\* the maxima written back to the controls but not repaired in `filters`
validateRangeFilters_ControlsOnly(filters, ctl) ==
  LET fol == Gt(filters.minFollowers, filters.maxFollowers)
      rep == Gt(filters.minRepos, filters.maxRepos)
      frk == Gt(filters.minForks, filters.maxForks)
  IN  [repaired |-> fol \/ rep \/ frk,
       filters |-> filters,
       controls |->
         [ctl EXCEPT
            !.maxFollowersFilter = IF fol THEN NumToString(MaxFollowersCeiling) ELSE @,
            !.maxReposFilter     = IF rep THEN NumToString(MaxReposCeiling) ELSE @,
            !.maxForksFilter     = IF frk THEN NumToString(MaxForksCeiling) ELSE @]]

\* The repaired filters, the controls after the write-back, and whether one
\* of the three branches was taken.
validateRangeFilters(filters, ctl) ==
  LET fol == Gt(filters.minFollowers, filters.maxFollowers)
      rep == Gt(filters.minRepos, filters.maxRepos)
      frk == Gt(filters.minForks, filters.maxForks)
  IN  [repaired |-> fol \/ rep \/ frk,
       filters |->
         [filters EXCEPT
            !.maxFollowers = IF fol THEN Num(MaxFollowersCeiling) ELSE @,
            !.maxRepos     = IF rep THEN Num(MaxReposCeiling) ELSE @,
            !.maxForks     = IF frk THEN Num(MaxForksCeiling) ELSE @],
       controls |->
         [ctl EXCEPT
            !.maxFollowersFilter = IF fol THEN NumToString(MaxFollowersCeiling) ELSE @,
            !.maxReposFilter     = IF rep THEN NumToString(MaxReposCeiling) ELSE @,
            !.maxForksFilter     = IF frk THEN NumToString(MaxForksCeiling) ELSE @]]

\* the six cutoffs of one filter pass, from the clock reading t
getDateRanges(t) ==
  LET c == CivilFromDays(t \div HoursPerDay)
  IN  [oneWeekAgo   |-> Num(t - 7 * HoursPerDay),
       oneMonthAgo  |-> MakeDate(c.y, c.m - 1, c.d),
       sixMonthsAgo |-> MakeDate(c.y, c.m - 6, c.d),
       oneYearAgo   |-> MakeDate(c.y - 1, c.m, c.d),
       twoYearsAgo  |-> MakeDate(c.y - 2, c.m, c.d),
       fiveYearsAgo |-> MakeDate(c.y - 5, c.m, c.d)]

\* ------------------------------------------------------------------------
\* Filter Predicate Set
\* ------------------------------------------------------------------------

matchesSearch(user, searchTerm) ==
  IF searchTerm = <<>> THEN TRUE
  ELSE \/ includes(user.name, searchTerm)
       \/ includes(user.login, searchTerm)
       \/ includes(user.location, searchTerm)

matchesFollowerRange(user, filters) ==
  Ge(user.followers, filters.minFollowers) /\ Le(user.followers, filters.maxFollowers)

matchesRepoRange(user, filters) ==
  Ge(user.repos, filters.minRepos) /\ Le(user.repos, filters.maxRepos)

matchesForkRange(user, filters) ==
  Ge(user.forks, filters.minForks) /\ Le(user.forks, filters.maxForks)

S_any == <<"a", "n", "y">>

S_has_sponsors == <<"h", "a", "s", "-", "s", "p", "o", "n", "s", "o", "r", "s">>

S_is_sponsoring == <<"i", "s", "-", "s", "p", "o", "n", "s", "o", "r", "i", "n", "g">>

S_min_ == <<"m", "i", "n", "-">>

matchesPublicSponsors(user, sponsorsFilter) ==
  IF sponsorsFilter = S_any THEN TRUE
  ELSE IF sponsorsFilter = S_has_sponsors THEN Gt(user.sponsors, Num(0))
  ELSE IF startsWith(sponsorsFilter, S_min_)
       THEN Ge(user.sponsors, parseIntStr(split(sponsorsFilter, "-")[2]))
  ELSE TRUE

matchesSponsoring(user, sponsoringFilter) ==
  IF sponsoringFilter = S_any THEN TRUE
  ELSE IF sponsoringFilter = S_is_sponsoring THEN Gt(user.sponsoring, Num(0))
  ELSE IF startsWith(sponsoringFilter, S_min_)
       THEN Ge(user.sponsoring, parseIntStr(split(sponsoringFilter, "-")[2]))
  ELSE TRUE

\* "old" reaching up to and including the cutoff
bucketLookup_OldInclusive(dt, rangeKey, dateRanges) ==
  CASE rangeKey = "week"    -> Ge(dt, dateRanges.oneWeekAgo)
    [] rangeKey = "month"   -> Ge(dt, dateRanges.oneMonthAgo)
    [] rangeKey = "6months" -> Ge(dt, dateRanges.sixMonthsAgo)
    [] rangeKey = "year"    -> Ge(dt, dateRanges.oneYearAgo)
    [] rangeKey = "2years"  -> Ge(dt, dateRanges.twoYearsAgo)
    [] rangeKey = "5years"  -> Ge(dt, dateRanges.fiveYearsAgo)
    [] rangeKey = "old"     -> Le(dt, dateRanges.fiveYearsAgo)
    [] OTHER -> TRUE

\* the object literal `ranges` of matchesAvatarAge and matchesDateByRange,
\* then ranges[key] !== undefined ? ranges[key] : true
bucketLookup(dt, rangeKey, dateRanges) ==
  CASE rangeKey = "week"    -> Ge(dt, dateRanges.oneWeekAgo)
    [] rangeKey = "month"   -> Ge(dt, dateRanges.oneMonthAgo)
    [] rangeKey = "6months" -> Ge(dt, dateRanges.sixMonthsAgo)
    [] rangeKey = "year"    -> Ge(dt, dateRanges.oneYearAgo)
    [] rangeKey = "2years"  -> Ge(dt, dateRanges.twoYearsAgo)
    [] rangeKey = "5years"  -> Ge(dt, dateRanges.fiveYearsAgo)
    [] rangeKey = "old"     -> Lt(dt, dateRanges.fiveYearsAgo)
    [] OTHER -> TRUE

matchesAvatarAge(user, ageFilter, dateRanges) ==
  IF ageFilter = "any" \/ ~Truthy(user.avatar_updated_at) THEN TRUE
  ELSE bucketLookup(NewDate(user.avatar_updated_at), ageFilter, dateRanges)

matchesStars(user, minStars) ==
  Ge(user.total_stars, IF IsNaN(minStars) THEN Num(0) ELSE minStars)

matchesLanguage(user, languageFilter) ==
  IF languageFilter = <<>> THEN TRUE
  ELSE \E i \in 1 .. Len(user.top_languages) :
         includes(user.top_languages[i].name, languageFilter)

matchesDateByRange(dateString, rangeKey, dateRanges) ==
  bucketLookup(NewDate(dateString), rangeKey, dateRanges)

matchesRepoActivity(user, activityFilter, dateRanges) ==
  IF activityFilter = "any" \/ ~Truthy(user.last_repo_pushed_at) THEN TRUE
  ELSE matchesDateByRange(user.last_repo_pushed_at, activityFilter, dateRanges)

matchesCommitActivity(user, commitFilter, dateRanges) ==
  IF commitFilter = "any" \/ ~Truthy(user.last_public_commit_at) THEN TRUE
  ELSE matchesDateByRange(user.last_public_commit_at, commitFilter, dateRanges)

\* the language predicate left out
matchesAllFilters_NoLanguage(user, filters, dateRanges) ==
  /\ matchesSearch(user, filters.searchTerm)
  /\ matchesFollowerRange(user, filters)
  /\ matchesRepoRange(user, filters)
  /\ matchesForkRange(user, filters)
  /\ matchesPublicSponsors(user, filters.sponsorsFilter)
  /\ matchesSponsoring(user, filters.sponsoringFilter)
  /\ matchesAvatarAge(user, filters.avatarAgeFilter, dateRanges)
  /\ matchesStars(user, filters.minStars)
  /\ matchesRepoActivity(user, filters.lastRepoActivityFilter, dateRanges)
  /\ matchesCommitActivity(user, filters.lastCommitFilter, dateRanges)

matchesAllFilters(user, filters, dateRanges) ==
  /\ matchesSearch(user, filters.searchTerm)
  /\ matchesFollowerRange(user, filters)
  /\ matchesRepoRange(user, filters)
  /\ matchesForkRange(user, filters)
  /\ matchesPublicSponsors(user, filters.sponsorsFilter)
  /\ matchesSponsoring(user, filters.sponsoringFilter)
  /\ matchesAvatarAge(user, filters.avatarAgeFilter, dateRanges)
  /\ matchesStars(user, filters.minStars)
  /\ matchesLanguage(user, filters.languageFilter)
  /\ matchesRepoActivity(user, filters.lastRepoActivityFilter, dateRanges)
  /\ matchesCommitActivity(user, filters.lastCommitFilter, dateRanges)

\* ------------------------------------------------------------------------
\* Sort Engine
\* ------------------------------------------------------------------------

\* the own properties of the object literal `sorters`
RegisteredSortKeys ==
  {"followers-desc", "followers-asc", "following-desc", "following-asc",
   "repos-desc", "repos-asc", "gists-desc", "gists-asc", "forks-desc", "forks-asc",
   "sponsors-desc", "sponsors-asc", "sponsoring-desc", "sponsoring-asc",
   "stars-desc", "stars-asc", "last-repo-desc", "last-repo-asc",
   "last-commit-desc", "last-commit-asc", "name-asc", "name-desc",
   "ratio-followers-following"}

\* What sorters[sortBy] evaluates to. `sorters` is a plain object, so a key can
\* also find a property inherited from Object.prototype:
\*   "own"       a registered comparator;
\*   "object"    a truthy value that is not callable (__proto__);
\*   "throwing"  a function that throws a TypeError when called with
\*               this = undefined (valueOf, hasOwnProperty);
\*   "nan"       a function whose result converts to NaN (toString, constructor);
\*   "undefined" nothing.
sorterKind(sortBy) ==
  CASE sortBy \in RegisteredSortKeys -> "own"
    [] sortBy = "__proto__" -> "object"
    [] sortBy \in {"valueOf", "hasOwnProperty"} -> "throwing"
    [] sortBy \in {"toString", "constructor"} -> "nan"
    [] OTHER -> "undefined"

\* new Date(v || 0)
dateOrEpoch(v) == NewDate(OrElse(v, JNum(0)))

\* ratioB - ratioA, multiplied by the two (positive) denominators: the sign
\* is the sign of the difference of the two quotients
\* ratioA - ratioB: the ascending order
ratioDifference_Ascending(a, b) ==
  LET denA == IF Gt(a.following, Num(0)) THEN a.following[1] ELSE 1
      denB == IF Gt(b.following, Num(0)) THEN b.following[1] ELSE 1
  IN  IF IsNaN(a.followers) \/ IsNaN(b.followers) THEN NaN
      ELSE Num(a.followers[1] * denB - b.followers[1] * denA)

ratioDifference(a, b) ==
  LET denA == IF Gt(a.following, Num(0)) THEN a.following[1] ELSE 1
      denB == IF Gt(b.following, Num(0)) THEN b.following[1] ELSE 1
  IN  IF IsNaN(a.followers) \/ IsNaN(b.followers) THEN NaN
      ELSE Num(b.followers[1] * denA - a.followers[1] * denB)

\* sorters[sortBy](a, b)
comparator(sortBy, a, b) ==
  CASE sortBy = "followers-desc"   -> Sub(b.followers, a.followers)
    [] sortBy = "followers-asc"    -> Sub(a.followers, b.followers)
    [] sortBy = "following-desc"   -> Sub(b.following, a.following)
    [] sortBy = "following-asc"    -> Sub(a.following, b.following)
    [] sortBy = "repos-desc"       -> Sub(b.repos, a.repos)
    [] sortBy = "repos-asc"        -> Sub(a.repos, b.repos)
    [] sortBy = "gists-desc"       -> Sub(b.gists, a.gists)
    [] sortBy = "gists-asc"        -> Sub(a.gists, b.gists)
    [] sortBy = "forks-desc"       -> Sub(b.forks, a.forks)
    [] sortBy = "forks-asc"        -> Sub(a.forks, b.forks)
    [] sortBy = "sponsors-desc"    -> Sub(b.sponsors, a.sponsors)
    [] sortBy = "sponsors-asc"     -> Sub(a.sponsors, b.sponsors)
    [] sortBy = "sponsoring-desc"  -> Sub(b.sponsoring, a.sponsoring)
    [] sortBy = "sponsoring-asc"   -> Sub(a.sponsoring, b.sponsoring)
    [] sortBy = "stars-desc"       -> Sub(b.total_stars, a.total_stars)
    [] sortBy = "stars-asc"        -> Sub(a.total_stars, b.total_stars)
    [] sortBy = "last-repo-desc"   ->
         Sub(dateOrEpoch(b.last_repo_pushed_at), dateOrEpoch(a.last_repo_pushed_at))
    [] sortBy = "last-repo-asc"    ->
         Sub(dateOrEpoch(a.last_repo_pushed_at), dateOrEpoch(b.last_repo_pushed_at))
    [] sortBy = "last-commit-desc" ->
         Sub(dateOrEpoch(b.last_public_commit_at), dateOrEpoch(a.last_public_commit_at))
    [] sortBy = "last-commit-asc"  ->
         Sub(dateOrEpoch(a.last_public_commit_at), dateOrEpoch(b.last_public_commit_at))
    [] sortBy = "name-asc"         -> Num(localeCompare(a.name, b.name))
    [] sortBy = "name-desc"        -> Num(localeCompare(b.name, a.name))
    [] sortBy = "ratio-followers-following" -> ratioDifference(a, b)
    [] OTHER -> NaN

\* SortCompare of Array.prototype.sort: a NaN result counts as +0
sortCompare(sortBy, a, b) ==
  LET v == comparator(sortBy, a, b) IN IF IsNaN(v) THEN 0 ELSE v[1]

\* an element that compares equal to one already placed is dropped
RECURSIVE insertSorted_DropsTies(_, _, _, _)
insertSorted_DropsTies(sortBy, os, run, x) ==
  IF run = <<>> THEN <<x>>
  ELSE LET last == run[Len(run)]
       IN  IF sortCompare(sortBy, os[last], os[x]) > 0
           THEN insertSorted_DropsTies(sortBy, os, SubSeq(run, 1, Len(run) - 1), x) \o <<last>>
           ELSE IF sortCompare(sortBy, os[last], os[x]) = 0 THEN run
           ELSE run \o <<x>>

\* x put into the sorted run `run`, after every element that does not
\* compare greater than it
RECURSIVE insertSorted(_, _, _, _)
insertSorted(sortBy, os, run, x) ==
  IF run = <<>> THEN <<x>>
  ELSE LET last == run[Len(run)]
       IN  IF sortCompare(sortBy, os[last], os[x]) > 0
           THEN insertSorted(sortBy, os, SubSeq(run, 1, Len(run) - 1), x) \o <<last>>
           ELSE run \o <<x>>

\* Array.prototype.sort(comparefn) on a short array: a stable insertion sort.
\* With a consistent comparator every stable sort gives this result; with an
\* inconsistent one (NaN keys) the order is implementation-defined and this
\* is the order an insertion sort gives.
RECURSIVE arraySort(_, _, _, _)
arraySort(sortBy, os, run, todo) ==
  IF todo = <<>> THEN run
  ELSE arraySort(sortBy, os, insertSorted(sortBy, os, run, Head(todo)), Tail(todo))

\* Array.prototype.filter, on an array of objects of the table os
RECURSIVE arrayFilter(_, _, _, _)
arrayFilter(arr, os, filters, dateRanges) ==
  IF arr = <<>> THEN <<>>
  ELSE (IF matchesAllFilters(os[Head(arr)], filters, dateRanges) THEN <<Head(arr)>> ELSE <<>>)
       \o arrayFilter(Tail(arr), os, filters, dateRanges)

\* ------------------------------------------------------------------------
\* Program state
\* ------------------------------------------------------------------------

VARIABLES
  phase,          \* where initializeApp is: "start", "pending" (awaiting the
                  \* fetch), "loaded" or "failed" (returned)
  raws,           \* the payload of users.json once the fetch has delivered it
  objs,           \* the canonical records, by object identity 1 .. Len(objs)
  heap,           \* the content of every array, by array identity
  allUsers,       \* let allUsers: an array identity
  filteredUsers,  \* let filteredUsers: an array identity
  isDataLoaded,   \* let isDataLoaded
  sortedUsers,    \* the array last returned by getSortedUsers, NoArray if none
  controls,       \* .value of every filter control and of sortBy
  loadingState,   \* style.display of #loadingState (a .loading-state panel)
  resultsInfo,    \* style.display of #resultsInfo
  spinner,        \* style.display of the panel's .loading-spinner
  loadingMessage, \* style.display of the panel's p:not(.error-message)
  errorMessage,   \* [display, text] of the panel's .error-message
  visibleCount,   \* textContent of #visibleCount
  totalCount,     \* textContent of #totalCount
  grid,           \* the cards of #grid: the object each one was built from
  resultsFound,   \* style.display of #resultsFound
  noResults,      \* style.display of #noResults
  now,            \* the clock reading new Date() gives
  op,             \* the handler that ran last
  trace,          \* what the last handler did: the functions it called, and
                  \* "repair" when validateRangeFilters rewrote a maximum
  threw           \* the last handler ended with an uncaught exception

vars ==
  <<phase, raws, objs, heap, allUsers, filteredUsers, isDataLoaded, sortedUsers,
    controls, loadingState, resultsInfo, spinner, loadingMessage, errorMessage,
    visibleCount, totalCount, grid, resultsFound, noResults, now, op, trace, threw>>

\* the state as one record, so that the functions of the program compose
Cur ==
  [phase |-> phase, raws |-> raws, objs |-> objs, heap |-> heap,
   allUsers |-> allUsers, filteredUsers |-> filteredUsers,
   isDataLoaded |-> isDataLoaded, sortedUsers |-> sortedUsers,
   controls |-> controls, loadingState |-> loadingState,
   resultsInfo |-> resultsInfo, spinner |-> spinner,
   loadingMessage |-> loadingMessage, errorMessage |-> errorMessage,
   visibleCount |-> visibleCount, totalCount |-> totalCount, grid |-> grid,
   resultsFound |-> resultsFound, noResults |-> noResults, now |-> now,
   op |-> op, trace |-> trace, threw |-> threw]

ArrIds == 0 .. 3

NoArray == -1

\* the arrays some variable still refers to
Roots(s) == {s.allUsers, s.filteredUsers, s.sortedUsers} \ {NoArray}

\* the identity of a newly created array: one that nothing refers to
NewArray(s) == CHOOSE a \in ArrIds \ Roots(s) : \A b \in ArrIds \ Roots(s) : a <= b

\* Array identities are opaque, so the arrays still referred to are renamed
\* in a fixed order (allUsers, filteredUsers, sortedUsers), keeping what is
\* the same array the same; unreachable arrays are forgotten.
Collect(s) ==
  LET nameAll      == 0
      nameFiltered == IF s.filteredUsers = s.allUsers THEN nameAll ELSE 1
      nameSorted   == CASE s.sortedUsers = NoArray -> NoArray
                        [] s.sortedUsers = s.allUsers -> nameAll
                        [] s.sortedUsers = s.filteredUsers -> nameFiltered
                        [] OTHER -> nameFiltered + 1
  IN  [s EXCEPT
         !.heap = [a \in ArrIds |->
                     CASE a = nameAll -> s.heap[s.allUsers]
                       [] a = nameFiltered -> s.heap[s.filteredUsers]
                       [] a = nameSorted -> s.heap[s.sortedUsers]
                       [] OTHER -> <<>>],
         !.allUsers = nameAll,
         !.filteredUsers = nameFiltered,
         !.sortedUsers = nameSorted]

\* the state a handler leaves
Commit(s) ==
  LET c == Collect(s)
  IN  /\ phase' = c.phase
      /\ raws' = c.raws
      /\ objs' = c.objs
      /\ heap' = c.heap
      /\ allUsers' = c.allUsers
      /\ filteredUsers' = c.filteredUsers
      /\ isDataLoaded' = c.isDataLoaded
      /\ sortedUsers' = c.sortedUsers
      /\ controls' = c.controls
      /\ loadingState' = c.loadingState
      /\ resultsInfo' = c.resultsInfo
      /\ spinner' = c.spinner
      /\ loadingMessage' = c.loadingMessage
      /\ errorMessage' = c.errorMessage
      /\ visibleCount' = c.visibleCount
      /\ totalCount' = c.totalCount
      /\ grid' = c.grid
      /\ resultsFound' = c.resultsFound
      /\ noResults' = c.noResults
      /\ now' = c.now
      /\ op' = c.op
      /\ trace' = c.trace
      /\ threw' = c.threw

\* a handler starts: nothing called yet, nothing thrown
Enter(s, name) == [s EXCEPT !.op = name, !.trace = {}, !.threw = FALSE]

\* the text or style a static page gives an element the script has not set
Unset == <<"unset">>

ControlIds ==
  {"searchInput", "sortBy", "followersFilter", "maxFollowersFilter",
   "minReposFilter", "maxReposFilter", "minForksFilter", "maxForksFilter",
   "sponsorsFilter", "sponsoringFilter", "avatarAgeFilter", "minStarsFilter",
   "languageFilter", "lastRepoActivityFilter", "lastCommitFilter"}

\* the `defaults` of resetFilters
defaults ==
  [searchInput            |-> <<>>,
   sortBy                 |-> "followers-desc",
   followersFilter        |-> <<"0">>,
   maxFollowersFilter     |-> <<"9", "9", "9", "9", "9", "9", "9", "9", "9">>,
   minReposFilter         |-> <<"0">>,
   maxReposFilter         |-> <<"9", "9", "9", "9", "9", "9">>,
   minForksFilter         |-> <<"0">>,
   maxForksFilter         |-> <<"9", "9", "9", "9", "9", "9">>,
   sponsorsFilter         |-> S_any,
   sponsoringFilter       |-> S_any,
   avatarAgeFilter        |-> "any",
   minStarsFilter         |-> <<"0">>,
   languageFilter         |-> <<>>,
   lastRepoActivityFilter |-> "any",
   lastCommitFilter       |-> "any"]

\* ------------------------------------------------------------------------
\* The functions of the program, as state transformers
\* ------------------------------------------------------------------------

\* f after s, skipped when an exception is already propagating
Then(s, f(_)) == IF s.threw THEN s ELSE f(s)

showLoadingState(s) == [s EXCEPT !.loadingState = "flex", !.resultsInfo = "none"]

hideLoadingState(s) == [s EXCEPT !.loadingState = "none", !.resultsInfo = "block"]

\* the result assigned to allUsers instead of filteredUsers
applyFilters_AssignsAllUsers(s) ==
  LET filters    == getActiveFilters(s.controls)
      valid      == validateRangeFilters(filters, s.controls)
      dateRanges == getDateRanges(s.now)
      result     == NewArray(s)
  IN  [s EXCEPT
         !.controls = valid.controls,
         !.heap = [@ EXCEPT ![result] =
                     arrayFilter(s.heap[s.allUsers], s.objs, valid.filters, dateRanges)],
         !.allUsers = result,
         !.trace = @ \cup {"applyFilters"} \cup (IF valid.repaired THEN {"repair"} ELSE {})]

applyFilters(s) ==
  LET filters    == getActiveFilters(s.controls)
      valid      == validateRangeFilters(filters, s.controls)
      dateRanges == getDateRanges(s.now)
      result     == NewArray(s)
  IN  [s EXCEPT
         !.controls = valid.controls,
         !.heap = [@ EXCEPT ![result] =
                     arrayFilter(s.heap[s.allUsers], s.objs, valid.filters, dateRanges)],
         !.filteredUsers = result,
         !.trace = @ \cup {"applyFilters"} \cup (IF valid.repaired THEN {"repair"} ELSE {})]

\* filteredUsers itself sorted and returned, no copy made
getSortedUsers_InPlace(s, sortBy) ==
  LET t == [s EXCEPT !.trace = @ \cup {"getSortedUsers"}]
  IN  IF sorterKind(sortBy) \in {"own", "nan"}
      THEN [t EXCEPT !.heap = [@ EXCEPT ![s.filteredUsers] =
                                 arraySort(sortBy, s.objs, <<>>, s.heap[s.filteredUsers])],
                     !.sortedUsers = s.filteredUsers]
      ELSE [t EXCEPT !.sortedUsers = s.filteredUsers]

\* getSortedUsers(sortBy): s.sortedUsers is the array returned
getSortedUsers(s, sortBy) ==
  LET sorted == NewArray(s)
      copy   == s.heap[s.filteredUsers]
      kind   == sorterKind(sortBy)
      t      == [s EXCEPT !.trace = @ \cup {"getSortedUsers"}]
  IN  CASE kind = "undefined" ->
             [t EXCEPT !.heap = [@ EXCEPT ![sorted] = copy], !.sortedUsers = sorted]
        [] kind = "object" ->
             [t EXCEPT !.threw = TRUE]
        [] kind = "throwing" ->
             IF Len(copy) >= 2
             THEN [t EXCEPT !.threw = TRUE]
             ELSE [t EXCEPT !.heap = [@ EXCEPT ![sorted] = copy], !.sortedUsers = sorted]
        [] OTHER ->
             [t EXCEPT !.heap = [@ EXCEPT ![sorted] = arraySort(sortBy, s.objs, <<>>, copy)],
                       !.sortedUsers = sorted]

getVisibleSortedUsers(s) == getSortedUsers(s, s.controls.sortBy)

\* renderCards: one card per user, in order
renderCards(s) == [s EXCEPT !.grid = s.heap[s.sortedUsers]]

\* the length of allUsers shown as the visible count
updateCounts_CountsAll(s) ==
  [s EXCEPT !.visibleCount = toLocaleString(Len(s.heap[s.allUsers])),
            !.totalCount = toLocaleString(Len(s.heap[s.allUsers]))]

updateCounts(s) ==
  [s EXCEPT !.visibleCount = toLocaleString(Len(s.heap[s.sortedUsers])),
            !.totalCount = toLocaleString(Len(s.heap[s.allUsers]))]

updateResultsMessage(s) ==
  IF Len(s.heap[s.sortedUsers]) = 0
  THEN [s EXCEPT !.resultsFound = "none", !.noResults = "block"]
  ELSE [s EXCEPT !.resultsFound = "block", !.noResults = "none"]

updateVisibilityAndSort(s) ==
  LET t == getSortedUsers([s EXCEPT !.trace = @ \cup {"updateVisibilityAndSort"}],
                          s.controls.sortBy)
  IN  Then(Then(Then(t, renderCards), updateCounts), updateResultsMessage)

ErrorText == "Unable to load users. Please try again later."

\* the catch block of fetchAndPrepareUsers
fetchCatch(s) ==
  [s EXCEPT !.spinner = "none",
            !.loadingMessage = "none",
            !.errorMessage = [display |-> "block", text |-> ErrorText]]

\* fetchAndPrepareUsers when the fetch and res.json() deliver `users`
fetchAndPrepareUsers(s, users) ==
  LET prepared == mapPrepare(users)
      all      == NewArray(s)
      s1       == [s EXCEPT !.raws = users]
  IN  IF prepared.threw
      THEN fetchCatch(s1)
      ELSE LET s2 == [s1 EXCEPT !.objs = prepared.value,
                                !.heap = [@ EXCEPT ![all] = [i \in 1 .. Len(users) |-> i]],
                                !.allUsers = all]
               copy == NewArray(s2)
           IN  [s2 EXCEPT !.heap = [@ EXCEPT ![copy] = s2.heap[all]],
                          !.filteredUsers = copy,
                          !.isDataLoaded = TRUE,
                          !.totalCount = toLocaleString(Len(s2.heap[all]))]

\* what initializeApp does once fetchAndPrepareUsers has returned
initializeAppResume(s) ==
  IF s.isDataLoaded
  THEN [Then(Then(applyFilters(s), updateVisibilityAndSort), hideLoadingState)
          EXCEPT !.phase = "loaded"]
  ELSE [s EXCEPT !.phase = "failed"]

onFilterChange(s) ==
  Then(Then(Then(showLoadingState(s), applyFilters), updateVisibilityAndSort),
       hideLoadingState)

resetFilters(s) ==
  Then(applyFilters([s EXCEPT !.controls = defaults]), updateVisibilityAndSort)

\* pickRandomUser: an empty list ends in a toast; otherwise a card of the
\* list is scrolled to and highlighted, which changes no state kept here
pickRandomUser(s) == getVisibleSortedUsers(s)

\* exportFilteredJSON: an alert when nothing is filtered in; otherwise the
\* raw records are serialised and downloaded, which changes no state kept here
exportFilteredJSON(s) == [s EXCEPT !.trace = @ \cup {"exportFilteredJSON"}]

\* Object.keys(rows[0]) and the rest of exportFilteredCSV: a TypeError when
\* rows[0] is undefined
csvFromRows(s) ==
  IF Len(s.heap[s.filteredUsers]) = 0 THEN [s EXCEPT !.threw = TRUE] ELSE s

exportFilteredCSV_Unguarded(s) ==
  csvFromRows([s EXCEPT !.trace = @ \cup {"exportFilteredCSV"}])

\* exportFilteredCSV: an alert when nothing is filtered in; otherwise the
\* header row comes from the first raw record
exportFilteredCSV(s) ==
  LET t == [s EXCEPT !.trace = @ \cup {"exportFilteredCSV"}]
  IN  IF Len(s.heap[s.filteredUsers]) = 0 THEN t ELSE csvFromRows(t)

\* ------------------------------------------------------------------------
\* Inputs
\* ------------------------------------------------------------------------

\* the two clock readings: a Sunday morning and the morning after
Now1 == At(2026, 11, 1, 10)

Now2 == At(2026, 11, 2, 10)

\* top_languages, when it is an array
Langs(items) == [isArray |-> TRUE, items |-> items]

NoLangs == [isArray |-> FALSE, items |-> <<>>]

Lang(name, bytes) == [name |-> JStr(name), bytes |-> bytes]

\* every field present and well formed; the avatar is exactly five years
\* older than midnight of Now1's date
RawAnn ==
  [login |-> JStr(<<"A", "n", "n">>),
   name |-> JStr(<<"A", "n", "n", " ", "L", "e", "e">>),
   location |-> JStr(<<"N", "Z">>),
   avatar_updated_at |-> JIso(At(2021, 11, 1, 0)),
   last_repo_pushed_at |-> JIso(At(2026, 10, 28, 9)),
   last_public_commit_at |-> JIso(At(2026, 10, 30, 0)),
   followers |-> JNum(100), following |-> JNum(0),
   public_repos |-> JNum(12), public_gists |-> JNum(1),
   sponsors_count |-> JNum(10), sponsoring_count |-> JNum(0),
   total_stars |-> JNum(50),
   top_languages |-> Langs(<<Lang(<<"G", "o">>, JNum(900))>>)]

\* absent, null, "N/A" and empty fields
RawBob ==
  [login |-> JStr(<<"b", "o", "b">>),
   name |-> JNull,
   location |-> JUndef,
   avatar_updated_at |-> JUndef,
   last_repo_pushed_at |-> JNull,
   last_public_commit_at |-> EmptyString,
   followers |-> JNum(50), following |-> JNum(25),
   public_repos |-> NA, public_gists |-> JNull,
   sponsors_count |-> JNum(9), sponsoring_count |-> JStr(<<"2">>),
   total_stars |-> JUndef,
   top_languages |-> NoLangs]

\* a number given as a string, and a number that does not parse
RawCy ==
  [login |-> JStr(<<"C", "y">>),
   name |-> JStr(<<"C", "y">>),
   location |-> JStr(<<"P", "e", "r", "u">>),
   avatar_updated_at |-> JIso(At(2019, 3, 1, 0)),
   last_repo_pushed_at |-> JIso(At(2024, 8, 31, 0)),
   last_public_commit_at |-> JIso(At(2026, 9, 30, 23)),
   followers |-> JStr(<<"7">>), following |-> JStr(<<"a", "b", "c">>),
   public_repos |-> JNum(3), public_gists |-> JNum(0),
   sponsors_count |-> NA, sponsoring_count |-> JNum(1),
   total_stars |-> JNum(5),
   top_languages |-> Langs(<<Lang(<<"C">>, JNum(10)), Lang(<<"G", "o">>, NA)>>)]

\* a timestamp field holding the "N/A" sentinel
RawZoe ==
  [login |-> JStr(<<"Z", "o", "e">>),
   name |-> JStr(<<"Z", "o", "e">>),
   location |-> JNull,
   avatar_updated_at |-> NA,
   last_repo_pushed_at |-> JIso(At(2026, 10, 1, 0)),
   last_public_commit_at |-> JNull,
   followers |-> JNum(3), following |-> JNum(1),
   public_repos |-> JNum(1), public_gists |-> JNum(0),
   sponsors_count |-> JNum(0), sponsoring_count |-> JNum(0),
   total_stars |-> JNum(0),
   top_languages |-> Langs(<<>>)]

RawPool == {RawAnn, RawBob, RawCy, RawZoe}

\* more public repositories than the largest maximum the repo filter offers
RawMax ==
  [login |-> JStr(<<"M", "a", "x">>),
   name |-> JStr(<<"M", "a", "x">>),
   location |-> JNull,
   avatar_updated_at |-> JIso(At(2025, 1, 1, 0)),
   last_repo_pushed_at |-> JIso(At(2026, 10, 1, 0)),
   last_public_commit_at |-> JNull,
   followers |-> JNum(200), following |-> JNum(4),
   public_repos |-> JNum(1000000), public_gists |-> JNum(0),
   sponsors_count |-> JNum(0), sponsoring_count |-> JNum(0),
   total_stars |-> JNum(8),
   top_languages |-> Langs(<<>>)]

\* a follower count that does not parse
RawDee ==
  [login |-> JStr(<<"D", "e", "e">>),
   name |-> JStr(<<"D", "e", "e">>),
   location |-> JNull,
   avatar_updated_at |-> JNull,
   last_repo_pushed_at |-> JNull,
   last_public_commit_at |-> JNull,
   followers |-> JStr(<<"a", "b", "c">>), following |-> JNum(2),
   public_repos |-> JNum(20), public_gists |-> JNum(0),
   sponsors_count |-> JNum(0), sponsoring_count |-> JNum(0),
   total_stars |-> JNum(1),
   top_languages |-> Langs(<<>>)]

\* pushed and committed exactly five years before midnight of the date of
\* Now1 and of Now2
RawEve ==
  [login |-> JStr(<<"E", "v", "e">>),
   name |-> JStr(<<"E", "v", "e">>),
   location |-> JNull,
   avatar_updated_at |-> JNull,
   last_repo_pushed_at |-> JIso(At(2021, 11, 1, 0)),
   last_public_commit_at |-> JIso(At(2021, 11, 2, 0)),
   followers |-> JNum(1), following |-> JNum(1),
   public_repos |-> JNum(2), public_gists |-> JNum(0),
   sponsors_count |-> JNum(0), sponsoring_count |-> JNum(0),
   total_stars |-> JNum(0),
   top_languages |-> Langs(<<>>)]

\* records with timestamps at, before and after the five-year cutoff, and
\* with none
BucketPool == {RawAnn, RawBob, RawCy, RawEve}

BucketPayloads == UNION {[1 .. n -> BucketPool] : n \in 0 .. MaxUsers}

\* records at and beyond the edges of the range filters
EdgePool == {RawAnn, RawCy, RawMax, RawDee}

EdgePayloads == UNION {[1 .. n -> EdgePool] : n \in 0 .. MaxUsers}

\* the payloads users.json may hold
Payloads == UNION {[1 .. n -> RawPool] : n \in 0 .. MaxUsers}

\* the values a user may give each control (its reset value among them)
InputValues ==
  [searchInput            |-> {<<>>, <<"a", "n">>, <<"N", "Z">>},
   sortBy                 |-> {"followers-desc", "name-asc"},
   followersFilter        |-> {<<"0">>, <<"1", "0", "0">>, <<>>},
   maxFollowersFilter     |-> {defaults.maxFollowersFilter, <<"6", "0">>},
   minReposFilter         |-> {<<"0">>, <<"1", "0">>},
   maxReposFilter         |-> {defaults.maxReposFilter, <<"5">>},
   minForksFilter         |-> {<<"0">>, <<"1">>},
   maxForksFilter         |-> {defaults.maxForksFilter, <<"0">>, <<"-", "1">>},
   sponsorsFilter         |-> {S_any, S_has_sponsors, S_min_ \o <<"1", "0">>},
   sponsoringFilter       |-> {S_any, S_is_sponsoring, S_min_ \o <<"1">>},
   avatarAgeFilter        |-> {"any", "5years", "old", "bogus"},
   minStarsFilter         |-> {<<"0">>, <<"2", "0">>, <<>>},
   languageFilter         |-> {<<>>, <<" ", "G", "o", " ">>},
   lastRepoActivityFilter |-> {"any", "week", "old"},
   lastCommitFilter       |-> {"any", "month"}]

\* the controls the events of Spec act on
EventControls == {"searchInput", "sortBy", "followersFilter", "maxFollowersFilter"}

\* the arguments getSortedUsers is called with
SortKeyInputs ==
  RegisteredSortKeys \cup {"bogus-key", "", "toString", "valueOf", "__proto__"}

\* ------------------------------------------------------------------------
\* Initial state and actions
\* ------------------------------------------------------------------------

\* the state once the script has been evaluated
InitialState ==
  [phase |-> "start", raws |-> <<>>, objs |-> <<>>,
   heap |-> [a \in ArrIds |-> <<>>],
   allUsers |-> 0, filteredUsers |-> 1,
   isDataLoaded |-> FALSE, sortedUsers |-> NoArray,
   controls |-> defaults, loadingState |-> "unset",
   resultsInfo |-> "unset", spinner |-> "unset",
   loadingMessage |-> "unset",
   errorMessage |-> [display |-> "unset", text |-> "unset"],
   visibleCount |-> Unset, totalCount |-> Unset, grid |-> <<>>,
   resultsFound |-> "unset", noResults |-> "unset", now |-> Now1,
   op |-> "none", trace |-> {}, threw |-> FALSE]

\* the variables hold the state s
Holds(s) ==
  /\ phase = s.phase
  /\ raws = s.raws
  /\ objs = s.objs
  /\ heap = s.heap
  /\ allUsers = s.allUsers
  /\ filteredUsers = s.filteredUsers
  /\ isDataLoaded = s.isDataLoaded
  /\ sortedUsers = s.sortedUsers
  /\ controls = s.controls
  /\ loadingState = s.loadingState
  /\ resultsInfo = s.resultsInfo
  /\ spinner = s.spinner
  /\ loadingMessage = s.loadingMessage
  /\ errorMessage = s.errorMessage
  /\ visibleCount = s.visibleCount
  /\ totalCount = s.totalCount
  /\ grid = s.grid
  /\ resultsFound = s.resultsFound
  /\ noResults = s.noResults
  /\ now = s.now
  /\ op = s.op
  /\ trace = s.trace
  /\ threw = s.threw

Init == Holds(InitialState)

\* initializeApp up to its await
initializeAppStart(s) == [showLoadingState(s) EXCEPT !.phase = "pending"]

\* DOMContentLoaded: initializeApp runs up to its await
DOMContentLoaded ==
  /\ phase = "start"
  /\ Commit(initializeAppStart(Enter(Cur, "initializeApp")))

\* the fetch and res.json() deliver a payload; initializeApp runs to its end
FetchResolves ==
  /\ phase = "pending"
  /\ \E users \in Payloads :
       Commit(initializeAppResume(
                fetchAndPrepareUsers(Enter(Cur, "initializeApp"), users)))

\* the fetch rejects, the status is not ok, or the body is not JSON
FetchFails ==
  /\ phase = "pending"
  /\ Commit(initializeAppResume(fetchCatch(Enter(Cur, "initializeApp"))))

\* an input or change event on a control: the user has given it the value v
\* (v is the value it had when a change event follows an input event)
FilterChange ==
  /\ phase # "start"
  /\ \E id \in EventControls : \E v \in InputValues[id] :
       Commit(onFilterChange(
                [Enter(Cur, "onFilterChange") EXCEPT !.controls = [controls EXCEPT ![id] = v]]))

ResetFilters ==
  /\ phase # "start"
  /\ Commit(resetFilters(Enter(Cur, "resetFilters")))

PickRandomUser ==
  /\ phase # "start"
  /\ Commit(pickRandomUser(Enter(Cur, "pickRandomUser")))

ExportFilteredJSON ==
  /\ phase # "start"
  /\ Commit(exportFilteredJSON(Enter(Cur, "exportFilteredJSON")))

ExportFilteredCSV ==
  /\ phase # "start"
  /\ Commit(exportFilteredCSV(Enter(Cur, "exportFilteredCSV")))

Next ==
  \/ DOMContentLoaded
  \/ FetchResolves
  \/ FetchFails
  \/ FilterChange
  \/ ResetFilters
  \/ PickRandomUser
  \/ ExportFilteredJSON
  \/ ExportFilteredCSV

\* The whole application: the page loads, the fetch resolves or fails, and
\* the user acts at any time after the listeners are attached.
Spec == Init /\ [][Next]_vars

\* ------------------------------------------------------------------------
\* applyFilters and getSortedUsers on drawn inputs (SpecFilter, SpecSort)
\* ------------------------------------------------------------------------

\* the state once initializeApp has reached its await
StartedState == Collect(initializeAppStart(Enter(InitialState, "initializeApp")))

\* the state once initializeApp has returned, the fetch having delivered users
LoadedState(users) ==
  Collect(initializeAppResume(
            fetchAndPrepareUsers(Enter(StartedState, "initializeApp"), users)))

\* the payloads that load
GoodPayloads == {users \in Payloads : LoadedState(users).isDataLoaded}

\* The eleven filter categories: for each, the values its controls may be
\* given together (the two ends of a range are one input).
FilterCategories ==
  <<{[searchInput |-> v] : v \in InputValues.searchInput},
    {[followersFilter |-> lo, maxFollowersFilter |-> hi] :
       lo \in InputValues.followersFilter, hi \in InputValues.maxFollowersFilter},
    {[minReposFilter |-> lo, maxReposFilter |-> hi] :
       lo \in InputValues.minReposFilter, hi \in InputValues.maxReposFilter},
    {[minForksFilter |-> lo, maxForksFilter |-> hi] :
       lo \in InputValues.minForksFilter, hi \in InputValues.maxForksFilter},
    {[sponsorsFilter |-> v] : v \in InputValues.sponsorsFilter},
    {[sponsoringFilter |-> v] : v \in InputValues.sponsoringFilter},
    {[avatarAgeFilter |-> v] : v \in InputValues.avatarAgeFilter},
    {[minStarsFilter |-> v] : v \in InputValues.minStarsFilter},
    {[languageFilter |-> v] : v \in InputValues.languageFilter},
    {[lastRepoActivityFilter |-> v] : v \in InputValues.lastRepoActivityFilter},
    {[lastCommitFilter |-> v] : v \in InputValues.lastCommitFilter}>>

\* the controls ctl with the values of `given` in place
WithValues(ctl, given) ==
  [id \in ControlIds |-> IF id \in DOMAIN given THEN given[id] ELSE ctl[id]]

\* the settings of the controls in which at most k categories are away from
\* their reset value
RECURSIVE ControlSettings(_)
ControlSettings(k) ==
  IF k = 0 THEN {defaults}
  ELSE LET fewer == ControlSettings(k - 1)
       IN  fewer \cup
           UNION {{WithValues(ctl, given) : given \in FilterCategories[i]} :
                    i \in 1 .. Len(FilterCategories), ctl \in fewer}

\* the clock readings a filter pass may see
Clocks == {Now1, Now2}

\* onFilterChange has been entered on a loaded page and is about to call
\* applyFilters: the inputs of the pass are the canonical collection, the
\* values of the controls and the clock.
InitFilter ==
  \E users \in GoodPayloads : \E ctl \in ControlSettings(MaxActive) : \E t \in Clocks :
    Holds([showLoadingState(Enter(LoadedState(users), "onFilterChange"))
             EXCEPT !.controls = ctl, !.now = t])

FirstPass ==
  /\ op = "onFilterChange"
  /\ Commit([applyFilters(Cur) EXCEPT !.op = "applyFilters"])

\* the pass again, nothing else having happened in between
SecondPass ==
  /\ op = "applyFilters"
  /\ Commit([applyFilters(Cur) EXCEPT !.op = "applyFilters again"])

NextFilter == FirstPass \/ SecondPass

\* applyFilters, called twice in a row on drawn inputs
SpecFilter == InitFilter /\ [][NextFilter]_vars

\* the settings of the three range filters, the other controls at their
\* reset values
RangeSettings ==
  {WithValues(WithValues(WithValues(defaults, fol), rep), frk) :
     fol \in FilterCategories[2], rep \in FilterCategories[3], frk \in FilterCategories[4]}

\* as InitFilter, the three ranges set together and the collection holding
\* records at the edges of the ranges
InitRange ==
  \E users \in EdgePayloads : \E ctl \in RangeSettings :
    Holds([showLoadingState(Enter(LoadedState(users), "onFilterChange"))
             EXCEPT !.controls = ctl])

\* applyFilters, called twice in a row on drawn range inputs
SpecRange == InitRange /\ [][NextFilter]_vars

\* values of the sponsors filter: the three modes, a value that names no
\* mode, and "min-" followed by no number
SponsorsModes ==
  {S_any, S_has_sponsors, S_min_ \o <<"1", "0">>, <<"t", "o", "p">>, S_min_ \o <<"a", "b", "c">>}

SponsoringModes ==
  {S_any, S_is_sponsoring, S_min_ \o <<"1">>, <<"t", "o", "p">>, S_min_}

\* as InitFilter, the two sponsor filters set together, the other controls
\* at their reset values
InitModes ==
  \E users \in GoodPayloads : \E a \in SponsorsModes : \E b \in SponsoringModes :
    Holds([showLoadingState(Enter(LoadedState(users), "onFilterChange"))
             EXCEPT !.controls = [defaults EXCEPT !.sponsorsFilter = a,
                                                    !.sponsoringFilter = b]])

\* applyFilters, called twice in a row on drawn sponsor filter values
SpecModes == InitModes /\ [][NextFilter]_vars

\* the buckets on the two sides of the five-year cutoff, and no bucket
Buckets == {"any", "5years", "old"}

\* as InitFilter, the three date-bucket filters set together, the other
\* controls at their reset values
InitBuckets ==
  \E users \in BucketPayloads : \E t \in Clocks :
    \E a \in Buckets : \E r \in Buckets : \E c \in Buckets :
      Holds([showLoadingState(Enter(LoadedState(users), "onFilterChange"))
               EXCEPT !.controls = [defaults EXCEPT !.avatarAgeFilter = a,
                                                      !.lastRepoActivityFilter = r,
                                                      !.lastCommitFilter = c],
                      !.now = t])

\* applyFilters, called twice in a row on drawn date buckets
SpecBuckets == InitBuckets /\ [][NextFilter]_vars

\* a loaded page on which the user has set the controls and the filter
\* change has been handled
InitReset ==
  \E users \in EdgePayloads : \E ctl \in ControlSettings(MaxActive) :
    Holds(Collect(onFilterChange(
            [Enter(LoadedState(users), "onFilterChange") EXCEPT !.controls = ctl])))

\* then the reset button
SpecReset == InitReset /\ [][ResetFilters]_vars

\* onFilterChange has run applyFilters on a loaded page and is about to call
\* updateVisibilityAndSort; sortBy holds any string.
InitSort ==
  \E users \in GoodPayloads : \E term \in InputValues.searchInput : \E key \in SortKeyInputs :
    Holds(applyFilters(
            [showLoadingState(Enter(LoadedState(users), "onFilterChange"))
               EXCEPT !.controls = [defaults EXCEPT !.searchInput = term, !.sortBy = key]]))

\* the rest of onFilterChange: the list is sorted and rendered
SortAndRender ==
  /\ op = "onFilterChange"
  /\ Commit([Then(updateVisibilityAndSort(Cur), hideLoadingState)
               EXCEPT !.op = "updateVisibilityAndSort"])

\* then the random-pick button: getSortedUsers is called once more
SortAgain ==
  /\ op = "updateVisibilityAndSort"
  /\ Commit(pickRandomUser(Enter(Cur, "pickRandomUser")))

NextSort == SortAndRender \/ SortAgain

\* getSortedUsers, called twice on drawn inputs
SpecSort == InitSort /\ [][NextSort]_vars

\* ------------------------------------------------------------------------
\* Properties of the application (Spec)
\* ------------------------------------------------------------------------

\* the content of the two shared collections
AllUsersContent == heap[allUsers]

FilteredUsersContent == heap[filteredUsers]

\* the login of every record of allUsers, in order
AllUsersLogins == [i \in 1 .. Len(AllUsersContent) |-> objs[AllUsersContent[i]].login]

\* the last handler ran a filter pass or a sort/render pass
PassRan == trace \cap {"applyFilters", "updateVisibilityAndSort", "getSortedUsers"} # {}

\* C1: no filter pass and no sort/render pass runs before the fetch of
\* users.json has completed successfully: whenever the last handler ran
\* applyFilters, updateVisibilityAndSort or getSortedUsers, isDataLoaded holds.
C1_NoPassBeforeLoad == PassRan => isDataLoaded

\* C2: once the fetch has failed the error display is permanent: the loading
\* panel with the "Unable to load users" message stays displayed and the
\* results view stays hidden, whatever the user does afterwards.
C2_ErrorStatePermanent ==
  phase = "failed" =>
    /\ loadingState = "flex"
    /\ errorMessage = [display |-> "block", text |-> ErrorText]
    /\ resultsInfo = "none"

\* C3: after a failed fetch, in every later state, nothing is visible (no
\* filtered record, no card, a visible count that reads 0 or was never
\* written), the total count reads 0 or was never written, and the last
\* handler did not end with an uncaught exception.
C3_FailedLoadStaysEmpty ==
  phase = "failed" =>
    /\ Len(FilteredUsersContent) = 0
    /\ grid = <<>>
    /\ visibleCount \in {Unset, <<"0">>}
    /\ totalCount \in {Unset, <<"0">>}
    /\ ~threw

\* a CSV export after a failed fetch and a filter change that wrote the counts
C3_Witness ==
  /\ phase = "failed"
  /\ op = "exportFilteredCSV"
  /\ visibleCount = <<"0">>
  /\ totalCount = <<"0">>

\* C4: after a successful load no step changes allUsers: its content (the
\* same objects in the same order) and its sequence of logins stay as they are.
C4_CanonicalCollectionFrozen ==
  [][isDataLoaded =>
       /\ AllUsersContent' = AllUsersContent
       /\ AllUsersLogins' = AllUsersLogins]_vars

\* a filter pass after the load kept one record of two
C4_Witness ==
  /\ isDataLoaded
  /\ op = "onFilterChange"
  /\ Len(AllUsersContent) = 2
  /\ Len(FilteredUsersContent) = 1

\* the numeric fields of a raw record and of the canonical record made of it
NumericFields ==
  <<<<"followers", "followers">>, <<"following", "following">>,
    <<"public_repos", "repos">>, <<"public_gists", "gists">>,
    <<"sponsors_count", "sponsors">>, <<"sponsoring_count", "sponsoring">>,
    <<"total_stars", "total_stars">>>>

DateFields == {"avatar_updated_at", "last_repo_pushed_at", "last_public_commit_at"}

\* C10: a malformed field value never fails the load: whenever a payload was
\* delivered the load ends loaded with one canonical record per raw record,
\* in which a number that does not parse is the default 0 and a date that
\* does not parse is the empty string.
C10_MalformedFieldNeverFailsLoad ==
  raws # <<>> =>
    /\ isDataLoaded
    /\ Len(AllUsersContent) = Len(raws)
    /\ \A i \in 1 .. Len(raws) :
         /\ \A k \in 1 .. Len(NumericFields) :
              IsNaN(parseInt(raws[i][NumericFields[k][1]]))
                => objs[i][NumericFields[k][2]] = Num(0)
         /\ \A f \in DateFields :
              IsNaN(NewDate(raws[i][f])) => objs[i][f] = EmptyString

\* C11: after a successful load every canonical record of allUsers has
\* followers, following, repos, gists, sponsors, sponsoring and total_stars
\* non-negative integers, 0 when the raw value is absent, null or "N/A", and
\* has forks 0.
C11_NumericFieldsNonNegative ==
  isDataLoaded =>
    \A i \in 1 .. Len(AllUsersContent) :
      LET u == objs[AllUsersContent[i]]
      IN  /\ \A k \in 1 .. Len(NumericFields) :
                LET x == u[NumericFields[k][2]]
                    v == raws[i][NumericFields[k][1]]
                IN  /\ ~IsNaN(x)
                    /\ x[1] >= 0
                    /\ (v = NA \/ IsNullish(v)) => x = Num(0)
          /\ u.forks = Num(0)

\* ------------------------------------------------------------------------
\* Properties of the filter pass (SpecFilter)
\* ------------------------------------------------------------------------

\* where the object x stands in allUsers
PositionInAll(x) == CHOOSE i \in 1 .. Len(AllUsersContent) : AllUsersContent[i] = x

\* the object x is a member of filteredUsers
FilteredIn(x) == \E j \in 1 .. Len(FilteredUsersContent) : FilteredUsersContent[j] = x

\* The filter parameters in force after a pass: the repaired maxima are the
\* ones the pass has written back to the controls.
ParametersInForce == getActiveFilters(controls)

\* C5: after a filter pass filteredUsers is exactly the subsequence of
\* allUsers of the records for which all eleven predicates hold: a record of
\* allUsers is in it iff search, follower range, repo range, fork range,
\* sponsors, sponsoring, avatar age, minimum stars, language, repo activity
\* and commit activity all hold, and its members stand in the order they
\* have in allUsers, each once.
C5_FilterIsExactSubsequence ==
  "applyFilters" \in trace =>
    LET f == ParametersInForce
        d == getDateRanges(now)
    IN  /\ \A i \in 1 .. Len(AllUsersContent) :
             LET u == objs[AllUsersContent[i]]
             IN  FilteredIn(AllUsersContent[i]) <=>
                   /\ matchesSearch(u, f.searchTerm)
                   /\ matchesFollowerRange(u, f)
                   /\ matchesRepoRange(u, f)
                   /\ matchesForkRange(u, f)
                   /\ matchesPublicSponsors(u, f.sponsorsFilter)
                   /\ matchesSponsoring(u, f.sponsoringFilter)
                   /\ matchesAvatarAge(u, f.avatarAgeFilter, d)
                   /\ matchesStars(u, f.minStars)
                   /\ matchesLanguage(u, f.languageFilter)
                   /\ matchesRepoActivity(u, f.lastRepoActivityFilter, d)
                   /\ matchesCommitActivity(u, f.lastCommitFilter, d)
        /\ \A j \in 1 .. Len(FilteredUsersContent) :
             \E i \in 1 .. Len(AllUsersContent) : AllUsersContent[i] = FilteredUsersContent[j]
        /\ \A j, k \in 1 .. Len(FilteredUsersContent) :
             j < k => PositionInAll(FilteredUsersContent[j]) < PositionInAll(FilteredUsersContent[k])

\* a pass with a language chosen kept the second of two records only
C5_Witness ==
  /\ op = "applyFilters"
  /\ Len(AllUsersContent) = 2
  /\ FilteredUsersContent = <<2>>
  /\ controls.languageFilter # <<>>

\* C6: a second filter pass right after a first one, on the same inputs,
\* leaves filteredUsers with the same members in the same order, also when
\* the first pass repaired an inverted range and wrote the maximum back.
C6_FilterIdempotent ==
  [][op' = "applyFilters again" => FilteredUsersContent' = FilteredUsersContent]_vars

\* the second pass has run after a first pass that repaired a range, and
\* some record is filtered in
C6_Witness ==
  /\ op = "applyFilters again"
  /\ "repair" \in trace
  /\ FilteredUsersContent # <<>>
  /\ Len(FilteredUsersContent) < Len(AllUsersContent)

\* the parameters a pass works with according to the repair rule: for each
\* range read with min > max the maximum is the ceiling, all else is as read
RepairedAsStated(read) ==
  [read EXCEPT
     !.maxFollowers = IF Gt(read.minFollowers, read.maxFollowers) THEN Num(999999999) ELSE @,
     !.maxRepos     = IF Gt(read.minRepos, read.maxRepos) THEN Num(999999) ELSE @,
     !.maxForks     = IF Gt(read.minForks, read.maxForks) THEN Num(999999) ELSE @]

\* One pass has repaired the ranges it read inverted: the maximum of such a
\* range is the ceiling afterwards and its minimum is as read, the pass has
\* kept exactly the records that match under the repaired parameters, and a
\* record whose value is at least the minimum (and, if `capped`, at most
\* the ceiling) passes the predicate of that range.
RangeRepair(capped) ==
  LET read     == getActiveFilters(controls)
      after    == getActiveFilters(controls')
      eff      == RepairedAsStated(read)
      followersInverted == Gt(read.minFollowers, read.maxFollowers)
      reposInverted     == Gt(read.minRepos, read.maxRepos)
      forksInverted     == Gt(read.minForks, read.maxForks)
  IN  /\ followersInverted =>
           after.maxFollowers = Num(999999999) /\ after.minFollowers = read.minFollowers
      /\ reposInverted =>
           after.maxRepos = Num(999999) /\ after.minRepos = read.minRepos
      /\ forksInverted =>
           after.maxForks = Num(999999) /\ after.minForks = read.minForks
      /\ \A i \in 1 .. Len(AllUsersContent) :
           LET u == objs[AllUsersContent[i]]
           IN  /\ (\E j \in 1 .. Len(FilteredUsersContent') :
                      FilteredUsersContent'[j] = AllUsersContent[i])
                     <=> matchesAllFilters(u, eff, getDateRanges(now))
               /\ (/\ followersInverted
                   /\ Ge(u.followers, read.minFollowers)
                   /\ (capped => Le(u.followers, Num(999999999))))
                  => matchesFollowerRange(u, eff)
               /\ (/\ reposInverted
                   /\ Ge(u.repos, read.minRepos)
                   /\ (capped => Le(u.repos, Num(999999))))
                  => matchesRepoRange(u, eff)
               /\ (/\ forksInverted
                   /\ Ge(u.forks, read.minForks)
                   /\ (capped => Le(u.forks, Num(999999))))
                  => matchesForkRange(u, eff)

IsMinMode(v) ==
  /\ Len(v) > Len(S_min_)
  /\ SubSeq(v, 1, Len(S_min_)) = S_min_
  /\ \A i \in Len(S_min_) + 1 .. Len(v) : IsDigit(v[i])

\* the N of "min-<N>"
MinModeN(v) == DigitsValue(0, SubSeq(v, Len(S_min_) + 1, Len(v)))

\* what a sponsor count must satisfy under the filter value v, `has` being
\* the name of the "more than none" mode
ModeAsStated(count, v, has) ==
  IF v = S_any THEN TRUE
  ELSE IF v = has THEN Gt(count, Num(0))
  ELSE IF IsMinMode(v) THEN Ge(count, Num(MinModeN(v)))
  ELSE TRUE

\* C13: for the sponsors and the sponsoring filter, "any" lets every record
\* pass, "has-sponsors" / "is-sponsoring" exactly the records with count
\* > 0, "min-<N>" exactly the records with count >= N, and every other
\* value lets every record pass: a pass keeps exactly the records that
\* satisfy both filters so read and pass the other nine predicates.
C13_SponsorModes ==
  op = "applyFilters" =>
    LET f    == ParametersInForce
        open == [f EXCEPT !.sponsorsFilter = S_any, !.sponsoringFilter = S_any]
    IN  \A i \in 1 .. Len(AllUsersContent) :
          LET u == objs[AllUsersContent[i]]
          IN  FilteredIn(AllUsersContent[i]) <=>
                /\ matchesAllFilters(u, open, getDateRanges(now))
                /\ ModeAsStated(u.sponsors, f.sponsorsFilter, S_has_sponsors)
                /\ ModeAsStated(u.sponsoring, f.sponsoringFilter, S_is_sponsoring)

\* the five-year cutoff of a pass at the current clock reading
FiveYearCutoff == getDateRanges(now).fiveYearsAgo[1]

\* what the timestamp ts of a record must satisfy under the bucket: strictly
\* before the cutoff for "old", at or after it for "5years"; a record with
\* no timestamp matches
BucketAsStated(ts, bucket) ==
  IF ts = EmptyString THEN TRUE
  ELSE CASE bucket = "old"    -> ts.n < FiveYearCutoff
         [] bucket = "5years" -> ts.n >= FiveYearCutoff
         [] OTHER -> TRUE

\* C14: for each of the three date-bucket filters a record with timestamp t
\* matches "old" iff t is strictly before the five-year cutoff and "5years"
\* iff t is at or after it, and a record with no timestamp matches every
\* bucket: a pass keeps exactly the records that satisfy the three buckets
\* so read and pass the other eight predicates.
C14_DateBuckets ==
  op = "applyFilters" =>
    LET f    == ParametersInForce
        open == [f EXCEPT !.avatarAgeFilter = "any",
                          !.lastRepoActivityFilter = "any",
                          !.lastCommitFilter = "any"]
    IN  \A i \in 1 .. Len(AllUsersContent) :
          LET u == objs[AllUsersContent[i]]
          IN  FilteredIn(AllUsersContent[i]) <=>
                /\ matchesAllFilters(u, open, getDateRanges(now))
                /\ BucketAsStated(u.avatar_updated_at, f.avatarAgeFilter)
                /\ BucketAsStated(u.last_repo_pushed_at, f.lastRepoActivityFilter)
                /\ BucketAsStated(u.last_public_commit_at, f.lastCommitFilter)

\* a pass with avatar age "5years" has kept a record whose avatar is exactly
\* at the cutoff and dropped an older one
C14_Witness ==
  /\ op = "applyFilters"
  /\ controls.avatarAgeFilter = "5years"
  /\ \E j \in 1 .. Len(FilteredUsersContent) :
        objs[FilteredUsersContent[j]].avatar_updated_at = JIso(FiveYearCutoff)
  /\ \E i \in 1 .. Len(AllUsersContent) :
        /\ objs[AllUsersContent[i]].avatar_updated_at # EmptyString
        /\ objs[AllUsersContent[i]].avatar_updated_at.n < FiveYearCutoff
        /\ ~FilteredIn(AllUsersContent[i])

\* ------------------------------------------------------------------------
\* Properties of the sort (SpecSort)
\* ------------------------------------------------------------------------

SortedUsersContent == heap[sortedUsers]

\* a and b hold the same objects, each as many times
IsPermutation(a, b) ==
  /\ Len(a) = Len(b)
  /\ \A x \in {a[i] : i \in 1 .. Len(a)} \cup {b[i] : i \in 1 .. Len(b)} :
       Cardinality({i \in 1 .. Len(a) : a[i] = x}) = Cardinality({i \in 1 .. Len(b) : b[i] = x})

\* C7: with a registered sortKey getSortedUsers returns a permutation of
\* filteredUsers, and the second call (the random pick) returns the order
\* the first call (the render) returned, which is the order of the cards.
C7_SortIsPermutation ==
  (op = "pickRandomUser" /\ controls.sortBy \in RegisteredSortKeys) =>
    /\ ~threw
    /\ IsPermutation(SortedUsersContent, FilteredUsersContent)
    /\ SortedUsersContent = grid

\* a sort by name that reordered two records
C7_Witness ==
  /\ op = "pickRandomUser"
  /\ controls.sortBy = "name-desc"
  /\ Len(FilteredUsersContent) = 2
  /\ SortedUsersContent = <<2, 1>>

\* C8: a call of getSortedUsers leaves filteredUsers and allUsers holding the
\* same records in the same order, and the array it returns is neither of
\* the two.
C8_SortLeavesCollections ==
  [][op' = "pickRandomUser" =>
       /\ FilteredUsersContent' = FilteredUsersContent
       /\ AllUsersContent' = AllUsersContent
       /\ ~threw' => sortedUsers' \notin {filteredUsers', allUsers'}]_vars

\* a call returned an order that differs from the order of filteredUsers
C8_Witness ==
  /\ op = "pickRandomUser"
  /\ ~threw
  /\ sortedUsers # NoArray
  /\ SortedUsersContent # FilteredUsersContent

\* C9: with a sortKey that names no registered comparator getSortedUsers
\* returns the records of filteredUsers in their filtered order.
C9_UnknownKeyKeepsOrder ==
  (op = "pickRandomUser" /\ controls.sortBy \notin RegisteredSortKeys) =>
    /\ ~threw
    /\ sortedUsers # NoArray
    /\ SortedUsersContent = FilteredUsersContent

\* the denominator of the ratio of a record: following when following > 0,
\* and 1 (the ratio is followers itself) when it is not
RatioDenominator(u) ==
  IF ~IsNaN(u.following) /\ u.following[1] > 0 THEN u.following[1] ELSE 1

\* the ratio of a is strictly larger than the ratio of b
RatioLarger(a, b) ==
  a.followers[1] * RatioDenominator(b) > b.followers[1] * RatioDenominator(a)

\* C15: sorted with key "ratio-followers-following" the records stand by
\* descending ratio, the ratio being followers/following when following > 0
\* and followers when following = 0: no record stands after a record whose
\* ratio is strictly smaller than its own.
C15_RatioSortDescending ==
  (/\ op \in {"updateVisibilityAndSort", "pickRandomUser"}
   /\ controls.sortBy = "ratio-followers-following"
   /\ ~threw) =>
    \A i, j \in 1 .. Len(SortedUsersContent) :
      i < j => ~RatioLarger(objs[SortedUsersContent[j]], objs[SortedUsersContent[i]])

\* {followers: 50, following: 25} stood before {followers: 100, following: 0}
\* in filteredUsers and stands after it in the sorted sequence
C15_Witness ==
  /\ op = "updateVisibilityAndSort"
  /\ controls.sortBy = "ratio-followers-following"
  /\ Len(FilteredUsersContent) = 2
  /\ objs[FilteredUsersContent[1]].followers = Num(50)
  /\ objs[FilteredUsersContent[1]].following = Num(25)
  /\ objs[FilteredUsersContent[2]].followers = Num(100)
  /\ objs[FilteredUsersContent[2]].following = Num(0)
  /\ SortedUsersContent = <<FilteredUsersContent[2], FilteredUsersContent[1]>>

\* C16: after resetFilters on a loaded page every canonical record is
\* visible: filteredUsers holds the records of allUsers in the same order,
\* whatever the controls held before and whatever records were loaded.
C16_ResetShowsAll ==
  (op = "resetFilters" /\ isDataLoaded) =>
    /\ ~threw
    /\ FilteredUsersContent = AllUsersContent

\* the number a count element shows: its digits, the grouping commas aside
CountShown(text) == DigitsValue(0, SelectSeq(text, IsDigit))

\* a filter/sort cycle has just completed: the init cycle after the load, a
\* filter or sort change, or a reset
CycleCompleted ==
  /\ op \in {"initializeApp", "onFilterChange", "resetFilters"}
  /\ "updateVisibilityAndSort" \in trace
  /\ ~threw

\* C17: after every completed filter/sort cycle the visible count shown is
\* the number of rendered cards and the length of filteredUsers, the total
\* shown is the length of allUsers, visible <= total, and the "no results"
\* message is shown exactly when the visible count is 0.
C17_CountsConsistent ==
  CycleCompleted =>
    /\ visibleCount # Unset /\ totalCount # Unset
    /\ CountShown(visibleCount) = Len(grid)
    /\ CountShown(visibleCount) = Len(FilteredUsersContent)
    /\ CountShown(totalCount) = Len(AllUsersContent)
    /\ CountShown(visibleCount) <= CountShown(totalCount)
    /\ noResults = "block" <=> CountShown(visibleCount) = 0
    /\ resultsFound = "block" <=> CountShown(visibleCount) # 0

\* a filter change on a loaded page of two records has left none visible
C17_Witness ==
  /\ op = "onFilterChange"
  /\ isDataLoaded
  /\ "updateVisibilityAndSort" \in trace
  /\ totalCount = <<"2">>
  /\ visibleCount = <<"0">>
  /\ noResults = "block"

=============================================================================
